---- MODULE Spec2Model ----
(***************************************************************************)
(* Expansion of the legacy partition syntax (parse_partition_gp.c):        *)
(* the START/END/EVERY bound iterator, the bound comparator and sorter,    *)
(* the implicit bound resolver, the column-encoding merge and              *)
(* generatePartitions itself.                                              *)
(***************************************************************************)
EXTENDS Integers, Sequences, FiniteSets, TLC

VARIABLES
    rangeSpec,    \* the RANGE element being expanded: start, end, endIncl, every
    iter,         \* its PartEveryIterator
    emitted,      \* the (currStart, currEnd) pairs nextPartBound has returned
    ncalls,       \* calls of nextPartBound made so far
    ipc,          \* where generateRangePartitions is: init, loop, done, or the error raised
    estates,      \* executor states created (CreateExecutorState) and not freed
    origstmts,    \* the list handed to deduceImplicitRangeBounds
    sortedstmts,  \* the list as list_qsort returned it
    result,       \* the list deduceImplicitRangeBounds returned
    spc,          \* generated, resolved
    encIn,        \* the encoding clauses and access methods generatePartitions is given
    encElem,      \* the element's accessMethod and colencs fields
    encStmt,      \* attr_encodings of the statement made for the element
    epc,          \* start, made, or the error raised
    gpPartDef,    \* the GpPartDefElems of the specification tree, as they are in memory
    parentoptions,\* the caller's parent option list, as it is in memory
    gpargs,       \* generatePartitions' other arguments: the key's strategy,
                  \* parentaccessmethod, parentattenc, the encoding clauses of gpPartSpec
    entry,        \* gpPartDef and parentoptions as they were when the call was made
    gp,           \* generatePartitions' locals: parentoptions, partDefElems, lc,
                  \* partcomp, penc_cls
    gpc,          \* call, elems, resolve, returned, failed
    gerr,         \* the error generatePartitions raised
    callno,       \* invocations of generatePartitions that have returned
    firstnames    \* the statement names the first invocation returned

itervars == <<rangeSpec, iter, emitted, ncalls, ipc, estates>>
sortvars == <<origstmts, sortedstmts, result, spc>>
encvars == <<encIn, encElem, encStmt, epc>>
genvars == <<gpPartDef, parentoptions, gpargs, entry, gp, gpc, gerr, callno, firstnames>>
notitervars == <<sortvars, encvars, genvars>>
notsortvars == <<itervars, encvars, genvars>>
notencvars == <<itervars, sortvars, genvars>>
notgenvars == <<itervars, encvars, spc>>
vars == <<rangeSpec, iter, emitted, ncalls, ipc, estates, origstmts, sortedstmts, result, spc,
          encIn, encElem, encStmt, epc,
          gpPartDef, parentoptions, gpargs, entry, gp, gpc, gerr, callno, firstnames>>

\* ------------------------------------------------------------------ bounds
\* The partition column is a signed integer type holding MinVal..MaxVal.
MaxVal == 13
\* EVERY literals range over -1..MaxEvery.
MaxEvery == 4
\* Bound literals of the descriptors handed to the sorter: 0..MaxBound.
MaxBound == 1
\* Longest list of descriptors handed to the sorter.
MaxStmts == 3

\* Calls of nextPartBound a caller makes after the one that returned false.
MaxAgain == 2

\* Longest list of partition elements given to generatePartitions.
MaxElems == 2
\* Invocations of generatePartitions on the same specification tree.
MaxCalls == 2
\* Longest list of column-encoding clauses at one level.
MaxEncs == 2

MinVal == -MaxVal - 1
Modulus == 2 * MaxVal + 2
Val == MinVal..MaxVal
EveryVals == -1..MaxEvery

\* A Node pointer is modelled as a sequence: <<>> is NULL / NIL, <<x>> points to x.
NULL == <<>>
Opt(S) == {NULL} \cup {<<x>> : x \in S}

\* ---------------------------------------------------------- type support
\* The key column's three-way comparison (partsupfunc[0]).
DatumCmp(a, b) == IF a < b THEN -1 ELSE IF a > b THEN 1 ELSE 0

\* The '+' operator of the key column's type, keeping the type's width.
PlusOp(v, e) == ((v + e - MinVal) % Modulus) + MinVal

\* ------------------------------------------------------------ iterator
\* canonicalizeRangeEnd: an inclusive END becomes END + 1.
canonicalizeRangeEndMut(endVal, endIncl) == endVal
canonicalizeRangeEnd(endVal, endIncl) ==
    IF ~endIncl THEN endVal ELSE PlusOp(endVal, 1)

\* The executor state canonicalizeRangeEnd creates for an inclusive END; the
\* function has no FreeExecutorState.
CanonicalizeEStates(end, endIncl) == IF end # NULL /\ endIncl THEN 1 ELSE 0

\* freePartEveryIterator: the executor states it frees.
freePartEveryIterator(it) == IF it.estate THEN 1 ELSE 0

\* initPartEveryIterator: start, end, every are Node pointers.
initPartEveryIterator(start, end, endIncl, every) ==
    LET startVal == IF start # NULL THEN start[1] ELSE 0
        endVal   == IF end # NULL THEN canonicalizeRangeEnd(end[1], endIncl) ELSE 0
    IN  IF every # NULL /\ (start = NULL \/ end = NULL)
        THEN [err |-> "EveryRequiresStartEnd",
              iter |-> [endVal |-> endVal, plusexprstate |-> NULL, estate |-> FALSE,
                        currStart |-> 0, currEnd |-> 0,
                        called |-> FALSE, endReached |-> FALSE]]
        ELSE [err |-> "none",
              iter |-> [endVal |-> endVal, plusexprstate |-> every,
                        estate |-> (every # NULL),
                        currStart |-> 0, currEnd |-> startVal,
                        called |-> FALSE, endReached |-> FALSE]]

\* Which error a non-advancing step raises: decided by the call ordinal.
StepErrorMut(firstcall) == IF firstcall THEN "RangeOverflow" ELSE "NonMonotonicStep"
StepError(firstcall) == IF firstcall THEN "NonMonotonicStep" ELSE "RangeOverflow"

\* Has the successor reached END?
ReachedEndMut(next, endVal) == DatumCmp(next, endVal) > 0
ReachedEnd(next, endVal) == DatumCmp(next, endVal) >= 0

\* The upper bound of the last pair: clamped to END.
ClampedEndMut(next, endVal) == next
ClampedEnd(next, endVal) == endVal

\* The sanity check that the successor is greater than the previous bound.
NotAdvancedMut(currEnd, next) == DatumCmp(currEnd, next) > 0
NotAdvanced(currEnd, next) == DatumCmp(currEnd, next) >= 0

\* "If the previous partition reached END, we're done".
PreviousReachedEndMut(it) == FALSE
PreviousReachedEnd(it) == it.endReached

\* nextPartBound: one call. ret is the function's result, err the error raised.
nextPartBound(it) ==
    LET firstcall == ~it.called
        c == [it EXCEPT !.called = TRUE]
    IN  IF c.plusexprstate # NULL
        THEN IF PreviousReachedEnd(c)
             THEN [iter |-> c, ret |-> FALSE, err |-> "none"]
             ELSE LET next == PlusOp(c.currEnd, c.plusexprstate[1])
                      d == [c EXCEPT !.currStart = c.currEnd]
                  IN  IF ReachedEnd(next, d.endVal)
                      THEN [iter |-> [d EXCEPT !.endReached = TRUE,
                                             !.currEnd = ClampedEnd(next, d.endVal)],
                            ret |-> TRUE, err |-> "none"]
                      ELSE IF NotAdvanced(d.currEnd, next)
                           THEN [iter |-> d, ret |-> FALSE, err |-> StepError(firstcall)]
                           ELSE [iter |-> [d EXCEPT !.currEnd = next],
                                 ret |-> TRUE, err |-> "none"]
        ELSE IF ~firstcall
             THEN [iter |-> c, ret |-> FALSE, err |-> "none"]
             ELSE [iter |-> [c EXCEPT !.currStart = c.currEnd, !.currEnd = c.endVal],
                   ret |-> TRUE, err |-> "none"]

\* ------------------------------------------------- comparator and sorter
Const(v) == [tag |-> "Const", constvalue |-> v]
MinValueRef == [tag |-> "minvalue", constvalue |-> 0]
MaxValueRef == [tag |-> "maxvalue", constvalue |-> 0]

PartitionBoundSpec(isdef, lower, upper) ==
    [is_default |-> isdef, lowerdatums |-> lower, upperdatums |-> upper]

\* "Sort DEFAULT partitions last": the branch taken when exactly one is DEFAULT.
DefaultRankMut(b1, b2) == IF b2.is_default THEN -1 ELSE 1
DefaultRank(b1, b2) == IF b2.is_default THEN 1 ELSE -1

\* The flip applied when b1's lower equals b2's upper.
LowerUpperTieMut(cmpval) == cmpval
LowerUpperTie(cmpval) == IF cmpval = 0 THEN 1 ELSE cmpval

\* The mirror branch (b1's upper against b2's lower): no flip.
UpperLowerTieMut(cmpval) == IF cmpval = 0 THEN -1 ELSE cmpval
UpperLowerTie(cmpval) == cmpval

qsort_stmt_cmp(b1, b2) ==
    IF b1.is_default # b2.is_default
    THEN DefaultRank(b1, b2)
    ELSE IF b1.lowerdatums # NULL /\ b2.lowerdatums # NULL
    THEN DatumCmp(b1.lowerdatums[1].constvalue, b2.lowerdatums[1].constvalue)
    ELSE IF b1.upperdatums # NULL /\ b2.upperdatums # NULL
    THEN DatumCmp(b1.upperdatums[1].constvalue, b2.upperdatums[1].constvalue)
    ELSE IF b1.lowerdatums # NULL /\ b2.upperdatums # NULL
    THEN LowerUpperTie(DatumCmp(b1.lowerdatums[1].constvalue,
                                b2.upperdatums[1].constvalue))
    ELSE IF b1.upperdatums # NULL /\ b2.lowerdatums # NULL
    THEN UpperLowerTie(DatumCmp(b1.upperdatums[1].constvalue,
                                b2.lowerdatums[1].constvalue))
    ELSE 0

\* list_qsort hands the cells to qsort_arg, which sorts fewer than seven
\* elements by insertion: an element moves left while its left neighbour
\* compares greater.
SwapCells(arr, i, j) == [arr EXCEPT ![i] = arr[j], ![j] = arr[i]]

RECURSIVE InsertLeft(_, _)
InsertLeft(arr, pl) ==
    IF pl > 1 /\ qsort_stmt_cmp(arr[pl - 1].partbound, arr[pl].partbound) > 0
    THEN InsertLeft(SwapCells(arr, pl - 1, pl), pl - 1)
    ELSE arr

RECURSIVE SortFrom(_, _)
SortFrom(arr, pm) ==
    IF pm > Len(arr) THEN arr ELSE SortFrom(InsertLeft(arr, pm), pm + 1)

list_qsort(list) == SortFrom(list, 2)

\* ------------------------------------------------ implicit bound resolver
\* The lower bound given to a statement that has none.
ImplicitLowerMut(stmts, i) ==
    IF i > 1 THEN stmts[i - 1].partbound.lowerdatums ELSE <<MinValueRef>>
ImplicitLower(stmts, i) ==
    IF i > 1 THEN stmts[i - 1].partbound.upperdatums ELSE <<MinValueRef>>

\* The upper bound given to a statement that has none.
ImplicitUpper(stmts, i) ==
    IF i < Len(stmts) THEN stmts[i + 1].partbound.lowerdatums ELSE <<MaxValueRef>>

\* The test that lets the resolver write a lower bound: the statement has none.
LowerAbsentMut(stmt) == TRUE
LowerAbsent(stmt) == stmt.partbound.lowerdatums = NULL

RECURSIVE DeduceLoop(_, _)
DeduceLoop(stmts, i) ==
    IF i > Len(stmts) THEN stmts
    ELSE LET a == IF LowerAbsent(stmts[i])
                  THEN [stmts EXCEPT ![i].partbound.lowerdatums = ImplicitLower(stmts, i)]
                  ELSE stmts
             b == IF a[i].partbound.upperdatums = NULL
                  THEN [a EXCEPT ![i].partbound.upperdatums = ImplicitUpper(a, i)]
                  ELSE a
         IN  DeduceLoop(b, i + 1)

deduceImplicitRangeBoundsMut(list) == DeduceLoop(list, 1)
deduceImplicitRangeBounds(list) == DeduceLoop(list_qsort(list), 1)

\* ------------------------------------------------ column-encoding merge
\* A ColumnReferenceStorageDirective: deflt, or the column it names; lvl records
\* the level that supplied it (its encoding value).
Directive(deflt, column, lvl) == [deflt |-> deflt, column |-> column, lvl |-> lvl]

\* split_encoding_clauses: non_def and def as they are after the loop, starting
\* from an empty non_def and a NULL def.
RECURSIVE SplitFrom(_, _, _, _)
SplitFrom(encs, i, non_def, def) ==
    IF i > Len(encs) THEN [non_def |-> non_def, def |-> def, err |-> "none"]
    ELSE IF encs[i].deflt
         THEN IF def # NULL
              THEN [non_def |-> non_def, def |-> def, err |-> "MultipleDefaultEncodings"]
              ELSE SplitFrom(encs, i + 1, non_def, <<encs[i]>>)
         ELSE SplitFrom(encs, i + 1, Append(non_def, encs[i]), def)

split_encoding_clauses(encs) == SplitFrom(encs, 1, <<>>, NULL)

\* Is pd's column already mentioned among the element's own clauses?
MentionedMut(pd, elem_nondefs) == FALSE
Mentioned(pd, elem_nondefs) ==
    \E k \in 1..Len(elem_nondefs) : elem_nondefs[k].column = pd.column

RECURSIVE AddPartNondefs(_, _, _, _)
AddPartNondefs(elem_colencs, part_nondefs, elem_nondefs, i) ==
    IF i > Len(part_nondefs) THEN elem_colencs
    ELSE AddPartNondefs(IF Mentioned(part_nondefs[i], elem_nondefs)
                        THEN elem_colencs
                        ELSE Append(elem_colencs, part_nondefs[i]),
                        part_nondefs, elem_nondefs, i + 1)

\* The default clause the merged list ends with.
AddPartDefMut(elem_colencs, elem_def, part_def) ==
    IF part_def # NULL THEN Append(elem_colencs, part_def[1]) ELSE elem_colencs
AddPartDef(elem_colencs, elem_def, part_def) ==
    IF elem_def # NULL THEN elem_colencs
    ELSE IF part_def # NULL THEN Append(elem_colencs, part_def[1])
    ELSE elem_colencs

merge_partition_encoding(elem_colencs, penc) ==
    IF penc = NULL THEN [colencs |-> elem_colencs, err |-> "none"]
    ELSE IF elem_colencs = NULL THEN [colencs |-> penc, err |-> "none"]
    ELSE LET e == split_encoding_clauses(elem_colencs)
             q == split_encoding_clauses(penc)
         IN  IF e.err # "none" THEN [colencs |-> elem_colencs, err |-> e.err]
             ELSE IF q.err # "none" THEN [colencs |-> elem_colencs, err |-> q.err]
             ELSE [colencs |-> AddPartDef(AddPartNondefs(elem_colencs, q.non_def,
                                                         e.non_def, 1),
                                          e.def, q.def),
                   err |-> "none"]

\* The access method an element ends up with: its own, else the parent's.
InheritAccessMethod(elemAM, parentaccessmethod) ==
    IF elemAM = NULL THEN parentaccessmethod ELSE elemAM

\* Are the encodings merged for this access method?
MergesEncodings(accessMethod) == accessMethod = <<"aoco">>

\* ------------------------------------------------------ names and options
DefElem(defname, arg) == [defname |-> defname, arg |-> arg]

\* The cell extract_tablename_from_options stops at: the first "tablename".
TablenameCell(options) ==
    IF \E k \in 1..Len(options) : options[k].defname = "tablename"
    THEN CHOOSE k \in 1..Len(options) :
             /\ options[k].defname = "tablename"
             /\ \A j \in 1..(k - 1) : options[j].defname # "tablename"
    ELSE 0

list_delete_cell(list, k) == [j \in 1..(Len(list) - 1) |-> IF j < k THEN list[j] ELSE list[j + 1]]

\* extract_tablename_from_options: the name found, and *options after the call.
extract_tablename_from_options(options) ==
    LET k == TablenameCell(options)
    IN  IF k \in 1..Len(options)
        THEN [tablename |-> <<options[k].arg>>, options |-> list_delete_cell(options, k)]
        ELSE [tablename |-> NULL, options |-> options]

\* A partition name as generateRangePartitions passes it on: the declared name
\* and the number appended to it ("%s_%d"), 0 when nothing is appended.
PartNameMut(base, i) == [base |-> base, i |-> 0]
PartName(base, i) == [base |-> base, i |-> i]

\* ChoosePartitionName: "prt_<partname>" through makeObjectName, or "prt_<partnum>"
\* through ChooseRelationName; parent name and level are the same for every call.
ChoosePartitionNameMut(partname, partnum) ==
    [src |-> "tablename",
     partname |-> IF partname # NULL THEN partname[1] ELSE PartName("", 0),
     partnum |-> partnum]
ChoosePartitionName(partname, partnum) ==
    IF partname # NULL
    THEN [src |-> "partname", partname |-> partname[1], partnum |-> 0]
    ELSE [src |-> "partnum", partname |-> PartName("", 0), partnum |-> partnum]

\* partnamecomp->partnum after makePartitionCreateStmt: incremented unless a
\* tablename names the statement.
NextPartnumMut(partnamecomp) == partnamecomp.partnum + 1
NextPartnum(partnamecomp) ==
    IF partnamecomp.tablename # NULL THEN partnamecomp.partnum
    ELSE partnamecomp.partnum + 1

\* makePartitionCreateStmt: the statement, and partnamecomp after the call.
makePartitionCreateStmt(partname, boundspec, elem, partnamecomp) ==
    LET named == partnamecomp.tablename # NULL
        pc2 == [partnamecomp EXCEPT !.partnum = NextPartnum(partnamecomp)]
        final_part_name ==
            IF named
            THEN [src |-> "tablename", partname |-> PartName(partnamecomp.tablename[1], 0),
                  partnum |-> 0]
            ELSE ChoosePartitionName(partname, pc2.partnum)
    IN  [stmt |-> [relname |-> final_part_name,
                   partbound |-> boundspec,
                   options |-> elem.options,
                   accessMethod |-> elem.accessMethod,
                   attr_encodings |-> elem.colencs],
         partnamecomp |-> pc2]

\* The EVERY clause generateRangePartitions hands to the iterator: ignored when
\* a tablename is given.
EveryUsedMut(boundSpec, partnamecomp) == boundSpec.every
EveryUsed(boundSpec, partnamecomp) ==
    IF partnamecomp.tablename = NULL THEN boundSpec.every ELSE NULL

\* The loop of generateRangePartitions: one statement per pair of the iterator.
RECURSIVE RangeLoop(_, _, _, _, _, _)
RangeLoop(it, i, partnamecomp, acc, elem, every) ==
    LET r == nextPartBound(it)
    IN  IF r.err # "none"
        THEN [stmts |-> acc, partnamecomp |-> partnamecomp, err |-> r.err]
        ELSE IF ~r.ret
        THEN [stmts |-> acc, partnamecomp |-> partnamecomp, err |-> "none"]
        ELSE LET bs == elem.boundSpec[1]
                 boundspec ==
                     PartitionBoundSpec(FALSE,
                         IF bs.start # NULL THEN <<Const(r.iter.currStart)>> ELSE NULL,
                         IF bs.end # NULL THEN <<Const(r.iter.currEnd)>> ELSE NULL)
                 numbered == every # NULL /\ elem.partName # NULL
                 partname == IF numbered
                             THEN <<PartName(elem.partName[1], i + 1)>>
                             ELSE IF elem.partName # NULL
                                  THEN <<PartName(elem.partName[1], 0)>>
                                  ELSE NULL
                 m == makePartitionCreateStmt(partname, boundspec, elem, partnamecomp)
             IN  RangeLoop(r.iter, IF numbered THEN i + 1 ELSE i, m.partnamecomp,
                           Append(acc, m.stmt), elem, every)

\* IsA(elem->boundSpec, GpPartitionRangeSpec) and IsA(.., GpPartitionListSpec).
IsRangeSpec(bs) == "start" \in DOMAIN bs
IsListSpec(bs) == "partValues" \in DOMAIN bs

generateRangePartitions(elem, partnamecomp) ==
    IF elem.boundSpec = NULL
    THEN [stmts |-> <<>>, partnamecomp |-> partnamecomp,
          err |-> "MissingBoundarySpecification"]
    ELSE IF ~IsRangeSpec(elem.boundSpec[1])
    THEN [stmts |-> <<>>, partnamecomp |-> partnamecomp,
          err |-> "InvalidBoundarySpecification"]
    ELSE LET bs == elem.boundSpec[1]
             every == EveryUsed(bs, partnamecomp)
             init == initPartEveryIterator(bs.start, bs.end, bs.endIncl, every)
         IN  IF init.err # "none"
             THEN [stmts |-> <<>>, partnamecomp |-> partnamecomp, err |-> init.err]
             ELSE RangeLoop(init.iter, 0, partnamecomp, <<>>, elem, every)

\* The bound of a LIST partition: its values in listdatums.
ListBoundSpec(listdatums) ==
    [is_default |-> FALSE, lowerdatums |-> NULL, upperdatums |-> NULL,
     listdatums |-> listdatums]

\* transformPartitionBound on a LIST bound: every literal becomes a Const of the
\* key's type, in place.
transformPartitionBound(boundspec) ==
    [boundspec EXCEPT !.listdatums =
        [k \in 1..Len(boundspec.listdatums) |-> Const(boundspec.listdatums[k])]]

\* The check made on each VALUES tuple.
BadArityMut(thisvalue) == Len(thisvalue) = 0
BadArity(thisvalue) == Len(thisvalue) # 1

generateListPartition(elem, partnamecomp) ==
    IF elem.boundSpec = NULL
    THEN [stmts |-> <<>>, partnamecomp |-> partnamecomp,
          err |-> "MissingBoundarySpecification"]
    ELSE IF ~IsListSpec(elem.boundSpec[1])
    THEN [stmts |-> <<>>, partnamecomp |-> partnamecomp,
          err |-> "InvalidBoundarySpecification"]
    ELSE LET partValues == elem.boundSpec[1].partValues
         IN  IF \E k \in 1..Len(partValues) : BadArity(partValues[k])
             THEN [stmts |-> <<>>, partnamecomp |-> partnamecomp,
                   err |-> "InvalidBoundaryArity"]
             ELSE LET listdatums == [k \in 1..Len(partValues) |-> partValues[k][1]]
                      boundspec == transformPartitionBound(ListBoundSpec(listdatums))
                      partname == IF elem.partName # NULL
                                  THEN <<PartName(elem.partName[1], 0)>>
                                  ELSE NULL
                      m == makePartitionCreateStmt(partname, boundspec, elem,
                                                   partnamecomp)
                  IN  [stmts |-> <<m.stmt>>, partnamecomp |-> m.partnamecomp,
                       err |-> "none"]

generateDefaultPartition(elem, partnamecomp) ==
    LET m == makePartitionCreateStmt(<<PartName(elem.partName[1], 0)>>,
                                     PartitionBoundSpec(TRUE, NULL, NULL),
                                     elem, partnamecomp)
    IN  [stmts |-> <<m.stmt>>, partnamecomp |-> m.partnamecomp, err |-> "none"]

\* The pre-pass of generatePartitions: the DEFAULT element is moved to the front.
DefaultFirstMut(elems, k, partDefElems, seen) ==
    [partDefElems |-> [j \in 1..Len(elems) |-> j], err |-> "none"]
RECURSIVE DefaultFirst(_, _, _, _)
DefaultFirst(elems, k, partDefElems, seen) ==
    IF k > Len(elems) THEN [partDefElems |-> partDefElems, err |-> "none"]
    ELSE IF elems[k].isDefault
         THEN IF seen
              THEN [partDefElems |-> partDefElems, err |-> "MultipleDefaultPartitions"]
              ELSE DefaultFirst(elems, k + 1, <<k>> \o partDefElems, TRUE)
         ELSE DefaultFirst(elems, k + 1, Append(partDefElems, k), seen)

\* The element as generatePartitions leaves it before it dispatches on its kind:
\* tablename taken out of its options, options and access method inherited,
\* encodings merged.
PrepareElement(elem, poptions, parentaccessmethod, penc_cls) ==
    LET ex == extract_tablename_from_options(elem.options)
        am == InheritAccessMethod(elem.accessMethod, parentaccessmethod)
        merged == IF MergesEncodings(am)
                  THEN merge_partition_encoding(elem.colencs, penc_cls)
                  ELSE [colencs |-> elem.colencs, err |-> "none"]
    IN  [tablename |-> ex.tablename,
         elem |-> [elem EXCEPT !.options = IF ex.options = NULL THEN poptions
                                           ELSE ex.options,
                               !.accessMethod = am,
                               !.colencs = merged.colencs],
         err |-> merged.err]

\* ====================================================== the bound iterator
RangeSpecs ==
    [start : Opt(Val), end : Opt(Val), endIncl : BOOLEAN, every : Opt(EveryVals)]

IterIdle ==
    /\ rangeSpec = [start |-> NULL, end |-> NULL, endIncl |-> FALSE, every |-> NULL]
    /\ iter = initPartEveryIterator(NULL, NULL, FALSE, NULL).iter
    /\ emitted = <<>>
    /\ ncalls = 0
    /\ ipc = "idle"
    /\ estates = 0

IterInit ==
    /\ rangeSpec \in RangeSpecs
    /\ iter = initPartEveryIterator(NULL, NULL, FALSE, NULL).iter
    /\ emitted = <<>>
    /\ ncalls = 0
    /\ ipc = "init"
    /\ estates = 0

\* generateRangePartitions up to its loop: set the iterator up.
InitIterator ==
    /\ ipc = "init"
    /\ LET r == initPartEveryIterator(rangeSpec.start, rangeSpec.end,
                                      rangeSpec.endIncl, rangeSpec.every)
       IN  /\ iter' = r.iter
           /\ ipc' = IF r.err = "none" THEN "loop" ELSE r.err
           /\ estates' = estates + CanonicalizeEStates(rangeSpec.end, rangeSpec.endIncl)
                                  + (IF r.iter.estate THEN 1 ELSE 0)
    /\ UNCHANGED <<rangeSpec, emitted, ncalls>>
    /\ UNCHANGED notitervars

\* One turn of the loop of generateRangePartitions: call nextPartBound, keep the
\* pair it returned, or leave the loop and free the iterator.
NextBound ==
    /\ ipc = "loop"
    /\ LET r == nextPartBound(iter)
       IN  /\ ncalls' = ncalls + 1
           /\ IF r.err # "none"
              THEN /\ iter' = r.iter
                   /\ ipc' = r.err
                   /\ UNCHANGED <<emitted, estates>>
              ELSE IF r.ret
              THEN /\ iter' = r.iter
                   /\ emitted' = Append(emitted, <<r.iter.currStart, r.iter.currEnd>>)
                   /\ UNCHANGED <<ipc, estates>>
              ELSE /\ iter' = [r.iter EXCEPT !.estate = FALSE]
                   /\ estates' = estates - freePartEveryIterator(r.iter)
                   /\ ipc' = "done"
                   /\ UNCHANGED emitted
    /\ UNCHANGED rangeSpec
    /\ UNCHANGED notitervars

\* A caller that keeps the iterator calls nextPartBound again after the loop has
\* ended.
CallAgain ==
    /\ ipc = "done"
    /\ ncalls < Len(emitted) + 1 + MaxAgain
    /\ LET r == nextPartBound(iter)
       IN  /\ ncalls' = ncalls + 1
           /\ iter' = r.iter
           /\ ipc' = IF r.err # "none" THEN r.err ELSE ipc
           /\ emitted' = IF r.err = "none" /\ r.ret
                         THEN Append(emitted, <<r.iter.currStart, r.iter.currEnd>>)
                         ELSE emitted
    /\ UNCHANGED <<rangeSpec, estates>>
    /\ UNCHANGED notitervars

\* ================================================= the sorter and resolver
BoundLits == {Const(v) : v \in 0..MaxBound}

RangeBounds ==
    {PartitionBoundSpec(FALSE, l, u) : l \in Opt(BoundLits), u \in Opt(BoundLits)}

DefaultBound == PartitionBoundSpec(TRUE, NULL, NULL)

\* Lists as generatePartitions builds them: the DEFAULT partition's statement,
\* if any, first, then the RANGE statements.
BoundLists ==
    UNION {[1..n -> RangeBounds] : n \in 0..MaxStmts}

WithDefault(bs) == <<DefaultBound>> \o bs

StmtList(bs) == [k \in 1..Len(bs) |-> [relname |-> k, partbound |-> bs[k]]]

SortIdle ==
    /\ origstmts = <<>>
    /\ sortedstmts = <<>>
    /\ result = <<>>
    /\ spc = "idle"

SortInit ==
    /\ \E bs \in BoundLists :
          \/ origstmts = StmtList(bs)
          \/ Len(bs) < MaxStmts /\ origstmts = StmtList(WithDefault(bs))
    /\ sortedstmts = <<>>
    /\ result = <<>>
    /\ spc = "generated"

\* deduceImplicitRangeBounds on the generated list.
DeduceBounds ==
    /\ spc = "generated"
    /\ sortedstmts' = list_qsort(origstmts)
    /\ result' = deduceImplicitRangeBounds(origstmts)
    /\ spc' = "resolved"
    /\ UNCHANGED origstmts
    /\ UNCHANGED notsortvars

\* ================================================ column encodings
Columns == {"a", "b"}
ClausesAt(lvl) ==
    {Directive(TRUE, "", lvl)} \cup {Directive(FALSE, c, lvl) : c \in Columns}
EncLists(lvl) == UNION {[1..n -> ClausesAt(lvl)] : n \in 0..MaxEncs}
AccessMethods ==
    {[own |-> <<"aoco">>, parent |-> NULL], [own |-> NULL, parent |-> <<"aoco">>],
     [own |-> <<"heap">>, parent |-> <<"aoco">>], [own |-> NULL, parent |-> NULL]}

EncIdle ==
    /\ encIn = [parentattenc |-> <<>>, penc |-> <<>>, colencs |-> <<>>,
                accessMethod |-> NULL, parentaccessmethod |-> NULL]
    /\ encElem = [accessMethod |-> NULL, colencs |-> <<>>]
    /\ encStmt = <<>>
    /\ epc = "idle"

EncInit ==
    /\ \E t \in EncLists("table"), c \in EncLists("config"), e \in EncLists("elem"),
          am \in AccessMethods :
          encIn = [parentattenc |-> t, penc |-> c, colencs |-> e,
                   accessMethod |-> am.own, parentaccessmethod |-> am.parent]
    /\ encElem = [accessMethod |-> encIn.accessMethod, colencs |-> encIn.colencs]
    /\ encStmt = <<>>
    /\ epc = "start"

\* The encodings' way through generatePartitions for one element: the config
\* level is merged with the table level, the element inherits the access method,
\* an aoco element's clauses are merged with the result, and the statement made
\* for the element copies them.
ExpandEncodings ==
    /\ epc = "start"
    /\ LET penc_cls == merge_partition_encoding(encIn.penc, encIn.parentattenc)
           am == InheritAccessMethod(encElem.accessMethod, encIn.parentaccessmethod)
           merged == IF MergesEncodings(am)
                     THEN merge_partition_encoding(encElem.colencs, penc_cls.colencs)
                     ELSE [colencs |-> encElem.colencs, err |-> "none"]
       IN  IF penc_cls.err # "none"
           THEN /\ epc' = penc_cls.err
                /\ UNCHANGED <<encElem, encStmt>>
           ELSE IF merged.err # "none"
           THEN /\ epc' = merged.err
                /\ encElem' = [encElem EXCEPT !.accessMethod = am]
                /\ UNCHANGED encStmt
           ELSE /\ epc' = "made"
                /\ encElem' = [accessMethod |-> am, colencs |-> merged.colencs]
                /\ encStmt' = merged.colencs
    /\ UNCHANGED encIn
    /\ UNCHANGED notencvars

\* ==================================================== generatePartitions
GenBoundSpecs ==
    {[start |-> <<1>>, end |-> <<3>>, endIncl |-> FALSE, every |-> <<1>>],
     [start |-> <<3>>, end |-> <<5>>, endIncl |-> FALSE, every |-> NULL],
     [start |-> <<5>>, end |-> NULL, endIncl |-> FALSE, every |-> NULL],
     [start |-> NULL, end |-> <<1>>, endIncl |-> FALSE, every |-> NULL]}

OptionLists ==
    {<<>>, <<DefElem("tablename", "t")>>, <<DefElem("fillfactor", "70")>>}

ParentOptionLists ==
    {<<>>, <<DefElem("fillfactor", "50")>>,
     <<DefElem("tablename", "pt"), DefElem("fillfactor", "50")>>}

GpPartDefElem(partName, isDefault, boundSpec, options) ==
    [partName |-> partName, isDefault |-> isDefault, boundSpec |-> boundSpec,
     options |-> options, accessMethod |-> NULL, colencs |-> <<>>]

\* RANGE elements: every bound without options, the bounded ones also with a
\* tablename, one with a storage option, one with WITH (tablename='t',
\* tablename='u'); and the DEFAULT element.
BoundedSpecs == {b \in GenBoundSpecs : b.start # NULL /\ b.end # NULL}

GenElems ==
    {GpPartDefElem(n, FALSE, <<b>>, <<>>) : n \in Opt({"p"}), b \in GenBoundSpecs}
    \cup {GpPartDefElem(n, FALSE, <<b>>, <<DefElem("tablename", "t")>>) :
             n \in Opt({"p"}), b \in BoundedSpecs}
    \cup {GpPartDefElem(NULL, FALSE, <<b>>, <<DefElem("fillfactor", "70")>>) :
             b \in {c \in BoundedSpecs : c.every = NULL}}
    \cup {GpPartDefElem(NULL, FALSE, <<b>>,
                         <<DefElem("tablename", "t"), DefElem("tablename", "u")>>) :
             b \in {c \in BoundedSpecs : c.every = NULL}}
    \cup {GpPartDefElem(<<"d">>, TRUE, NULL, o) : o \in OptionLists}

\* LIST elements: VALUES tuples of one literal, or one tuple of two.
ListValueSpecs ==
    {[partValues |-> <<<<1>>, <<2>>>>], [partValues |-> <<<<3>>>>],
     [partValues |-> <<<<1>>, <<2, 3>>>>]}

ListElems ==
    {GpPartDefElem(n, FALSE, <<b>>, o) :
        n \in Opt({"p"}), b \in ListValueSpecs,
        o \in {<<>>, <<DefElem("tablename", "t")>>}}
    \cup {GpPartDefElem(<<"d">>, TRUE, NULL, o) :
             o \in {<<>>, <<DefElem("tablename", "t")>>}}
    \cup {[GpPartDefElem(<<"p">>, FALSE, <<[partValues |-> <<<<1>>, <<2, 3>>>>]>>, <<>>)
             EXCEPT !.accessMethod = <<"aoco">>,
                    !.colencs = <<Directive(TRUE, "", "elem"),
                                  Directive(TRUE, "", "elem")>>]}

\* RANGE elements with EVERY but without START or without END.
EveryOnlySpecs ==
    {[start |-> <<5>>, end |-> NULL, endIncl |-> FALSE, every |-> <<1>>],
     [start |-> NULL, end |-> <<1>>, endIncl |-> FALSE, every |-> <<1>>]}

EveryOnlyElems ==
    {GpPartDefElem(n, FALSE, <<b>>, o) :
        n \in Opt({"p"}), b \in EveryOnlySpecs,
        o \in {<<>>, <<DefElem("tablename", "t")>>}}

\* RANGE elements with an access method and encoding clauses of their own.
EncodedElems ==
    {[GpPartDefElem(<<"p">>, FALSE,
                    <<[start |-> <<3>>, end |-> <<5>>, endIncl |-> FALSE,
                       every |-> NULL]>>, <<>>)
        EXCEPT !.accessMethod = am, !.colencs = c] :
        am \in {NULL, <<"aoco">>},
        c \in {<<>>, <<Directive(FALSE, "a", "elem")>>,
               <<Directive(TRUE, "", "elem"), Directive(TRUE, "", "elem")>>}}

MixedElems ==
    EveryOnlyElems \cup EncodedElems \cup {GpPartDefElem(<<"d">>, TRUE, NULL, <<>>)}

GpArgs(strategy, parentaccessmethod, parentattenc, penc) ==
    [strategy |-> strategy, parentaccessmethod |-> parentaccessmethod,
     parentattenc |-> parentattenc, penc |-> penc]

\* What the table and the partition configuration say about encodings.
TableEncs ==
    {GpArgs("range", NULL, <<>>, <<>>),
     GpArgs("range", <<"aoco">>, <<Directive(TRUE, "", "table")>>,
            <<Directive(FALSE, "a", "config")>>),
     GpArgs("range", NULL, <<Directive(FALSE, "b", "table")>>,
            <<Directive(TRUE, "", "config"), Directive(TRUE, "", "config")>>),
     GpArgs("range", <<"aoco">>, <<>>,
            <<Directive(TRUE, "", "config"), Directive(TRUE, "", "config")>>)}

ElemLists(S) == UNION {[1..n -> S] : n \in 1..MaxElems}

\* The calls generatePartitions is given: RANGE elements under parent options,
\* LIST elements, or RANGE elements under table and configuration encodings.
GenInputs ==
    \/ /\ gpPartDef \in ElemLists(GenElems)
       /\ parentoptions \in ParentOptionLists
       /\ gpargs = GpArgs("range", NULL, <<>>, <<>>)
    \/ /\ gpPartDef \in ElemLists(ListElems)
       /\ parentoptions = <<>>
       /\ gpargs \in {GpArgs("list", NULL, <<>>, <<>>),
                      GpArgs("list", NULL, <<>>, <<Directive(FALSE, "a", "config")>>)}
    \/ /\ gpPartDef \in ElemLists(MixedElems)
       /\ parentoptions = <<>>
       /\ gpargs \in TableEncs

Names(list) == [k \in 1..Len(list) |-> list[k].relname]

GenIdle ==
    /\ gpPartDef = <<>>
    /\ parentoptions = <<>>
    /\ gpargs = GpArgs("range", NULL, <<>>, <<>>)
    /\ entry = [gpPartDef |-> <<>>, parentoptions |-> <<>>]
    /\ gp = [poptions |-> <<>>, partDefElems |-> <<>>, lc |-> 0,
             partcomp |-> [tablename |-> NULL, partnum |-> 0], penc_cls |-> <<>>]
    /\ gpc = "idle"
    /\ gerr = "none"
    /\ callno = 0
    /\ firstnames = <<>>

GenInit ==
    /\ GenInputs
    /\ entry = [gpPartDef |-> gpPartDef, parentoptions |-> parentoptions]
    /\ gp = [poptions |-> <<>>, partDefElems |-> <<>>, lc |-> 0,
             partcomp |-> [tablename |-> NULL, partnum |-> 0], penc_cls |-> <<>>]
    /\ gpc = "call"
    /\ gerr = "none"
    /\ callno = 0
    /\ firstnames = <<>>
    /\ origstmts = <<>>
    /\ sortedstmts = <<>>
    /\ result = <<>>

\* generatePartitions up to its main loop: "tablename" is removed from the parent
\* options, the configuration's encoding clauses are merged with the table's,
\* and the DEFAULT element is moved to the front.
GP_Enter ==
    /\ gpc = "call"
    /\ entry' = [gpPartDef |-> gpPartDef, parentoptions |-> parentoptions]
    /\ LET ex == extract_tablename_from_options(parentoptions)
           penc_cls == merge_partition_encoding(gpargs.penc, gpargs.parentattenc)
           pre == DefaultFirst(gpPartDef, 1, <<>>, FALSE)
       IN  /\ IF ex.tablename # NULL /\ Len(parentoptions) = 1
              THEN parentoptions' \in {<<>>, parentoptions}
              ELSE parentoptions' = ex.options
           /\ IF penc_cls.err # "none"
              THEN /\ gp' = [poptions |-> ex.options, partDefElems |-> <<>>, lc |-> 0,
                             partcomp |-> [tablename |-> NULL, partnum |-> 0],
                             penc_cls |-> <<>>]
                   /\ gpc' = "failed"
                   /\ gerr' = penc_cls.err
              ELSE /\ gp' = [poptions |-> ex.options, partDefElems |-> pre.partDefElems,
                             lc |-> 1,
                             partcomp |-> [tablename |-> NULL, partnum |-> 0],
                             penc_cls |-> penc_cls.colencs]
                   /\ gpc' = IF pre.err = "none" THEN "elems" ELSE "failed"
                   /\ gerr' = pre.err
    /\ origstmts' = <<>>
    /\ sortedstmts' = <<>>
    /\ result' = <<>>
    /\ UNCHANGED <<gpPartDef, gpargs, callno, firstnames>>
    /\ UNCHANGED notgenvars

\* One turn of the main loop: the element is prepared and expanded.
GP_Element ==
    /\ gpc = "elems"
    /\ gp.lc <= Len(gp.partDefElems)
    /\ LET k == gp.partDefElems[gp.lc]
           prep == PrepareElement(gpPartDef[k], gp.poptions, gpargs.parentaccessmethod,
                                  gp.penc_cls)
           partcomp == [gp.partcomp EXCEPT !.tablename = prep.tablename]
           gen == IF prep.err # "none"
                  THEN [stmts |-> <<>>, partnamecomp |-> partcomp, err |-> prep.err]
                  ELSE IF prep.elem.isDefault
                  THEN generateDefaultPartition(prep.elem, partcomp)
                  ELSE IF gpargs.strategy = "range"
                  THEN generateRangePartitions(prep.elem, partcomp)
                  ELSE generateListPartition(prep.elem, partcomp)
       IN  /\ gpPartDef' = [gpPartDef EXCEPT ![k] = prep.elem]
           /\ IF gen.err # "none"
              THEN /\ gpc' = "failed"
                   /\ gerr' = gen.err
                   /\ gp' = [gp EXCEPT !.partcomp = gen.partnamecomp]
                   /\ UNCHANGED origstmts
              ELSE /\ gp' = [gp EXCEPT !.partcomp = gen.partnamecomp, !.lc = gp.lc + 1]
                   /\ origstmts' = origstmts \o gen.stmts
                   /\ UNCHANGED <<gpc, gerr>>
    /\ UNCHANGED <<parentoptions, gpargs, entry, callno, firstnames, sortedstmts, result>>
    /\ UNCHANGED notgenvars

\* After the loop: the RANGE statements are sorted and resolved, and the list is
\* returned.
GP_Return ==
    /\ gpc = "elems"
    /\ gp.lc > Len(gp.partDefElems)
    /\ IF gpargs.strategy = "range"
       THEN /\ sortedstmts' = list_qsort(origstmts)
            /\ result' = deduceImplicitRangeBounds(origstmts)
       ELSE /\ sortedstmts' = <<>>
            /\ result' = origstmts
    /\ gpc' = "returned"
    /\ callno' = callno + 1
    /\ firstnames' = IF callno = 0 THEN Names(result') ELSE firstnames
    /\ UNCHANGED <<gpPartDef, parentoptions, gpargs, entry, gp, gerr, origstmts>>
    /\ UNCHANGED notgenvars

\* The caller invokes generatePartitions again, on the same tree and list.
GP_Again ==
    /\ gpc = "returned"
    /\ callno < MaxCalls
    /\ gpc' = "call"
    /\ UNCHANGED <<gpPartDef, parentoptions, gpargs, entry, gp, gerr, callno, firstnames>>
    /\ UNCHANGED <<origstmts, sortedstmts, result>>
    /\ UNCHANGED notgenvars

\* ========================================================= specifications
Init == GenInit /\ IterIdle /\ EncIdle /\ spc = "idle"
Next == GP_Enter \/ GP_Element \/ GP_Return \/ GP_Again
Spec == Init /\ [][Next]_vars

EncNext == ExpandEncodings
EncStart == EncInit /\ IterIdle /\ SortIdle /\ GenIdle

SpecEnc == EncStart /\ [][EncNext]_vars

IterNext == InitIterator \/ NextBound
IterStart == IterInit /\ SortIdle /\ EncIdle /\ GenIdle

SpecIter == IterStart /\ [][IterNext]_vars

\* The loop of generateRangePartitions goes on as long as it can.
SpecIterLive == IterStart /\ [][IterNext]_vars /\ WF_vars(IterNext)

\* The iterator under a caller that goes on calling it.
AgainNext == InitIterator \/ NextBound \/ CallAgain
SpecAgain == IterStart /\ [][AgainNext]_vars

SortNext == DeduceBounds
SortStart == SortInit /\ IterIdle /\ EncIdle /\ GenIdle

SpecSort == SortStart /\ [][SortNext]_vars

\* ================================================================= claims
\* The declared bounds of the element under expansion, END made exclusive.
HasStartEnd == rangeSpec.start # NULL /\ rangeSpec.end # NULL
StartVal == rangeSpec.start[1]
EndVal == canonicalizeRangeEnd(rangeSpec.end[1], rangeSpec.endIncl)
Lower(i) == emitted[i][1]
Upper(i) == emitted[i][2]
IterErrors == {"EveryRequiresStartEnd", "NonMonotonicStep", "RangeOverflow"}

\* C1: with START = a < END = b and an EVERY step, the pairs returned so far
\* start at a, chain without gap or overlap (upper[i] = lower[i+1]), are non-empty
\* (lower[i] < upper[i]) and stay within [a,b); once the loop has ended without
\* error the last upper is b, so the intervals cover [a,b) exactly.
C1_ExhaustiveCoverage ==
    (HasStartEnd /\ rangeSpec.every # NULL /\ StartVal < EndVal) =>
        /\ emitted # <<>> => Lower(1) = StartVal
        /\ \A i \in 1..Len(emitted) : Lower(i) < Upper(i) /\ Upper(i) <= EndVal
        /\ \A i \in 1..(Len(emitted) - 1) : Upper(i) = Lower(i + 1)
        /\ ipc = "done" => emitted # <<>> /\ Upper(Len(emitted)) = EndVal

C1_Witness ==
    /\ HasStartEnd /\ rangeSpec.every # NULL /\ StartVal < EndVal
    /\ ipc = "done"
    /\ Len(emitted) >= 3

\* C2: for a < b (END exclusive) and e > 0 with no overflow (the last successor
\* a + n*e fits the type, n = ceil((b-a)/e)), expansion raises no error and ends
\* with exactly n pairs; every pair but the last has upper = lower + e and the
\* last pair's upper is b.
CeilDiv(x, y) == (x + y - 1) \div y
PairCount == CeilDiv(EndVal - StartVal, rangeSpec.every[1])
C2_Pre ==
    /\ HasStartEnd /\ rangeSpec.every # NULL /\ ~rangeSpec.endIncl
    /\ StartVal < EndVal
    /\ rangeSpec.every[1] > 0
    /\ StartVal + PairCount * rangeSpec.every[1] <= MaxVal

C2_PairCountAndClamp ==
    C2_Pre =>
        /\ ipc \notin IterErrors
        /\ Len(emitted) <= PairCount
        /\ \A i \in 1..Len(emitted) :
              i < PairCount => Upper(i) = Lower(i) + rangeSpec.every[1]
        /\ ipc = "done" =>
              /\ Len(emitted) = PairCount
              /\ Upper(PairCount) = EndVal

\* START(1) END(10) EVERY(4) has ended with [1,5) [5,9) [9,10).
C2_Witness ==
    /\ C2_Pre /\ ipc = "done"
    /\ emitted = <<(<<1, 5>>), (<<5, 9>>), (<<9, 10>>)>>

IsRange(st) == ~st.partbound.is_default
LowerOf(st) == st.partbound.lowerdatums
UpperOf(st) == st.partbound.upperdatums
LowerOnly(st, v) == IsRange(st) /\ LowerOf(st) = <<Const(v)>> /\ UpperOf(st) = NULL
UpperOnly(st, v) == IsRange(st) /\ LowerOf(st) = NULL /\ UpperOf(st) = <<Const(v)>>
RangeIdx(list) == {i \in 1..Len(list) : IsRange(list[i])}

\* C5 as claimed: in the order list_qsort produces, no DEFAULT statement precedes
\* a statement that is not DEFAULT.
C5_DefaultLast ==
    spc = "resolved" =>
        \A i, j \in 1..Len(sortedstmts) :
            (i < j /\ sortedstmts[i].partbound.is_default) =>
                sortedstmts[j].partbound.is_default

C9_Pre(v) ==
    /\ spc = "resolved"
    /\ Cardinality(RangeIdx(origstmts)) = 2
    /\ \E i, j \in RangeIdx(origstmts) :
          UpperOnly(origstmts[i], v) /\ LowerOnly(origstmts[j], v)

C9_EndOnlyBeforeStartOnly ==
    \A v \in 0..MaxBound :
        C9_Pre(v) =>
            \E i, j \in 1..Len(sortedstmts) :
                i < j /\ UpperOnly(sortedstmts[i], v) /\ LowerOnly(sortedstmts[j], v)

\* The START-only element was declared first and the sorter moved it.
C9_Witness ==
    /\ C9_Pre(1)
    /\ LowerOnly(origstmts[1], 1) /\ UpperOnly(origstmts[2], 1)
    /\ UpperOnly(sortedstmts[1], 1) /\ LowerOnly(sortedstmts[2], 1)

\* ---- the comparator
Sign(x) == IF x < 0 THEN -1 ELSE IF x > 0 THEN 1 ELSE 0
Bounds(list) == {list[i].partbound : i \in 1..Len(list)}
HasLower(b) == ~b.is_default /\ b.lowerdatums # NULL
OnlyUpper(b) == ~b.is_default /\ b.lowerdatums = NULL /\ b.upperdatums # NULL
OnlyLower(b) == ~b.is_default /\ b.lowerdatums # NULL /\ b.upperdatums = NULL
\* A START-only bound against an END-only bound of the same value.
TouchingTie(x, y) ==
    /\ OnlyLower(x) /\ OnlyUpper(y)
    /\ x.lowerdatums[1].constvalue = y.upperdatums[1].constvalue

\* C10 as claimed: over the bounds the sorter is given, cmp(x,y) and cmp(y,x)
\* have opposite signs, and cmp(x,y) <= 0 and cmp(y,z) <= 0 imply cmp(x,z) <= 0.
C10_TotalOrder ==
    spc = "resolved" =>
    \A x, y, z \in Bounds(origstmts) :
        /\ Sign(qsort_stmt_cmp(x, y)) = -Sign(qsort_stmt_cmp(y, x))
        /\ (qsort_stmt_cmp(x, y) <= 0 /\ qsort_stmt_cmp(y, z) <= 0) =>
              qsort_stmt_cmp(x, z) <= 0

\* C10 amended: cmp(x,y) and cmp(y,x) have opposite signs except for a START-only
\* bound against an END-only bound of the same value, where cmp(START-only,
\* END-only) = 1 and cmp(END-only, START-only) = 0; and cmp(x,y) <= 0 and
\* cmp(y,z) <= 0 imply cmp(x,z) <= 0 when x, y, z all carry a lower bound or are
\* all END-only, a DEFAULT bound being allowed among them.
C10_Comparator ==
    spc = "resolved" =>
    \A x, y, z \in Bounds(origstmts) :
        /\ IF TouchingTie(x, y)
           THEN qsort_stmt_cmp(x, y) = 1 /\ qsort_stmt_cmp(y, x) = 0
           ELSE TouchingTie(y, x) \/
                Sign(qsort_stmt_cmp(x, y)) = -Sign(qsort_stmt_cmp(y, x))
        /\ (\/ \A b \in {x, y, z} : b.is_default \/ HasLower(b)
            \/ \A b \in {x, y, z} : b.is_default \/ OnlyUpper(b)) =>
              ((qsort_stmt_cmp(x, y) <= 0 /\ qsort_stmt_cmp(y, z) <= 0) =>
                  qsort_stmt_cmp(x, z) <= 0)

\* The sorter has run on a list holding a touching START-only / END-only pair
\* and a DEFAULT statement.
C10_Witness ==
    /\ spc = "resolved"
    /\ \E x, y, z \in Bounds(origstmts) : TouchingTie(x, y) /\ z.is_default

\* ---- column encodings
Elems(list) == {list[k] : k \in 1..Len(list)}
Occurrences(list, d) == Cardinality({k \in 1..Len(list) : list[k] = d})

\* C7: for every column c named by a column clause of the element, the merged
\* list of the statement holds the element's clauses for c as they were given and
\* holds no column clause for c from the config or the table level.
C7_EncodingPrecedence ==
    epc = "made" =>
        \A d \in Elems(encIn.colencs) :
            ~d.deflt =>
                /\ Occurrences(encStmt, d) = Occurrences(encIn.colencs, d)
                /\ \A x \in Elems(encStmt) :
                      (~x.deflt /\ x.column = d.column) => x.lvl = "elem"

\* An aoco element naming column a was merged with a config level naming a and
\* b above a table level naming a: only the config's clause for b was added.
C7_Witness ==
    /\ epc = "made"
    /\ encIn.colencs = <<Directive(FALSE, "a", "elem")>>
    /\ encIn.penc = <<Directive(FALSE, "a", "config"), Directive(FALSE, "b", "config")>>
    /\ encIn.parentattenc = <<Directive(FALSE, "a", "table")>>
    /\ encStmt = <<Directive(FALSE, "a", "elem"), Directive(FALSE, "b", "config")>>

\* ---- generatePartitions
\* C8 as claimed: an invocation of generatePartitions on the same specification
\* tree and parent options as the first returns the same list of names (and as
\* many statements) as the first did.
C8_SameNamesAgain ==
    (gpc = "returned" /\ callno >= 2) => Names(result) = firstnames

\* ---- executor states
\* C16: once the expansion of a RANGE element has ended, normally or with an
\* error, no executor state created for it (for EVERY stepping or for making an
\* inclusive END exclusive) is still there.
C16_ContextsReleased ==
    ipc \in ({"done"} \cup IterErrors) => estates = 0 /\ ~iter.estate

\* ---- default encodings
DefaultCount(list) == Cardinality({k \in 1..Len(list) : list[k].deflt})

\* C15: when the table level, the partition-configuration level or the element
\* supplies more than one DEFAULT column-encoding directive, expansion fails
\* with MultipleDefaultEncodings, whatever the other levels hold.
C15_DuplicateDefaultFails ==
    (/\ epc # "start"
     /\ \/ DefaultCount(encIn.parentattenc) > 1
        \/ DefaultCount(encIn.penc) > 1
        \/ DefaultCount(encIn.colencs) > 1) =>
        epc = "MultipleDefaultEncodings"

\* ---- generatePartitions: the order of the returned list
Indices(list) == [k \in 1..Len(list) |-> k]
IsDefaultAt(k) == gpPartDef[k].isDefault
IsntDefaultAt(k) == ~gpPartDef[k].isDefault
\* The DEFAULT element first, then the other elements as they were declared.
ProcessingOrder ==
    SelectSeq(Indices(gpPartDef), IsDefaultAt) \o SelectSeq(Indices(gpPartDef), IsntDefaultAt)
ValuesOf(elem) ==
    [k \in 1..Len(elem.boundSpec[1].partValues) |->
        Const(elem.boundSpec[1].partValues[k][1])]

\* C11 as claimed: the returned list has the statements in the order in which
\* they were generated, for RANGE and LIST alike.
C11_AsClaimed ==
    gpc = "returned" => Names(result) = Names(origstmts)

\* C11 amended: the elements are processed DEFAULT first, then in declaration
\* order; for LIST partitioning the returned list is the generated list in that
\* order, one statement per element; for RANGE partitioning the returned list
\* is the generated list as the boundary sort ordered it (no statement
\* compares greater than its successor).
C11_ReturnedOrder ==
    gpc = "returned" =>
        /\ gp.partDefElems = ProcessingOrder
        /\ Len(result) = Len(origstmts)
        /\ gpargs.strategy = "list" =>
              /\ result = origstmts
              /\ Len(result) = Len(gp.partDefElems)
              /\ \A j \in 1..Len(result) :
                    LET elem == gpPartDef[gp.partDefElems[j]]
                    IN  /\ result[j].partbound.is_default = elem.isDefault
                        /\ ~elem.isDefault =>
                              result[j].partbound.listdatums = ValuesOf(elem)
        /\ gpargs.strategy = "range" =>
              /\ Names(result) = Names(sortedstmts)
              /\ \A i \in 1..(Len(sortedstmts) - 1) :
                    qsort_stmt_cmp(sortedstmts[i].partbound,
                                   sortedstmts[i + 1].partbound) <= 0
              /\ \A x \in Elems(origstmts) :
                    Occurrences(sortedstmts, x) = Occurrences(origstmts, x)

\* A RANGE call returned its statements in another order than it generated them.
C11_Witness ==
    /\ gpc = "returned" /\ gpargs.strategy = "range"
    /\ Len(result) >= 2
    /\ result[1].relname # origstmts[1].relname

\* ---- generatePartitions: one element
\* The element the main loop is about to process, as it is in the tree.
CurElem == gpPartDef[gp.partDefElems[gp.lc]]
\* The statements a step of the main loop has added.
NewStmts == SubSeq(origstmts', Len(origstmts) + 1, Len(origstmts'))
Appended == SubSeq(origstmts', 1, Len(origstmts)) = origstmts

\* The merge of the element's encoding clauses with penc_cls, made before the
\* element is expanded, fails.
ElemMergeFails(elem) ==
    /\ (IF elem.accessMethod = NULL THEN gpargs.parentaccessmethod
        ELSE elem.accessMethod) = <<"aoco">>
    /\ elem.colencs # <<>> /\ gp.penc_cls # <<>>
    /\ DefaultCount(elem.colencs) > 1 \/ DefaultCount(gp.penc_cls) > 1

\* C12 as claimed: processing a LIST element that has a VALUES tuple of other
\* than one literal fails with InvalidBoundaryArity and adds no statement;
\* processing one whose tuples all have one literal adds exactly one statement,
\* whose bound lists the element's values in declaration order.
C12_AsClaimed ==
    [][(GP_Element /\ gpargs.strategy = "list" /\ ~CurElem.isDefault) =>
          LET partValues == CurElem.boundSpec[1].partValues
          IN  IF \E k \in 1..Len(partValues) : Len(partValues[k]) # 1
              THEN /\ gpc' = "failed" /\ gerr' = "InvalidBoundaryArity"
                   /\ origstmts' = origstmts
              ELSE /\ gpc' = "elems" /\ gerr' = "none"
                   /\ Appended /\ Len(NewStmts) = 1
                   /\ ~NewStmts[1].partbound.is_default
                   /\ NewStmts[1].partbound.listdatums = ValuesOf(CurElem)]_vars

\* C12 amended: the same, for an element whose encoding merge does not fail;
\* when that merge fails the element fails with MultipleDefaultEncodings and
\* adds no statement, whatever its tuples.
C12_ListArity ==
    [][(GP_Element /\ gpargs.strategy = "list" /\ ~CurElem.isDefault) =>
          IF ElemMergeFails(CurElem)
          THEN /\ gpc' = "failed" /\ gerr' = "MultipleDefaultEncodings"
               /\ origstmts' = origstmts
          ELSE
          LET partValues == CurElem.boundSpec[1].partValues
          IN  IF \E k \in 1..Len(partValues) : Len(partValues[k]) # 1
              THEN /\ gpc' = "failed" /\ gerr' = "InvalidBoundaryArity"
                   /\ origstmts' = origstmts
              ELSE /\ gpc' = "elems" /\ gerr' = "none"
                   /\ Appended /\ Len(NewStmts) = 1
                   /\ ~NewStmts[1].partbound.is_default
                   /\ NewStmts[1].partbound.listdatums = ValuesOf(CurElem)]_vars

\* A LIST call made a statement for VALUES (1), (2) and then failed on an
\* element with a tuple of two literals.
C12_Witness ==
    /\ gpargs.strategy = "list"
    /\ gpc = "failed" /\ gerr = "InvalidBoundaryArity"
    /\ Len(origstmts) = 1
    /\ ~origstmts[1].partbound.is_default
    /\ origstmts[1].partbound.listdatums = <<Const(1), Const(2)>>

\* ---- generatePartitions: the pre-pass
DefaultElems == {k \in 1..Len(gpPartDef) : gpPartDef[k].isDefault}
NothingExpanded ==
    /\ origstmts = <<>>
    /\ gp.partcomp.partnum = 0
    /\ gpPartDef = entry.gpPartDef
\* The merge of the configuration's encoding clauses with the table's fails.
TableMergeFails ==
    /\ gpargs.penc # <<>> /\ gpargs.parentattenc # <<>>
    /\ DefaultCount(gpargs.penc) > 1 \/ DefaultCount(gpargs.parentattenc) > 1

\* C13 as claimed: a call on a list with more than one DEFAULT element fails
\* with MultipleDefaultPartitions before any element is expanded.
C13_AsClaimed ==
    (gpc # "call" /\ Cardinality(DefaultElems) > 1) =>
        /\ gpc = "failed" /\ gerr = "MultipleDefaultPartitions"
        /\ NothingExpanded

\* C13 amended: a call on a list with more than one DEFAULT element fails before
\* any element is expanded (no statement, counter at 0, tree untouched): with
\* MultipleDefaultEncodings when the merge of the configuration's and the
\* table's encoding clauses fails, which comes first, and with
\* MultipleDefaultPartitions otherwise.
C13_MultipleDefaults ==
    (gpc # "call" /\ Cardinality(DefaultElems) > 1) =>
        /\ gpc = "failed"
        /\ gerr = IF TableMergeFails THEN "MultipleDefaultEncodings"
                  ELSE "MultipleDefaultPartitions"
        /\ NothingExpanded

\* A call with two DEFAULT elements failed in the pre-pass.
C13_Witness ==
    /\ gpc = "failed" /\ gerr = "MultipleDefaultPartitions"
    /\ Cardinality(DefaultElems) = 2
    /\ NothingExpanded

\* ---- generatePartitions: EVERY without START or END
HasTablename(elem) == TablenameCell(elem.options) # 0
EveryWithoutBound(elem) ==
    /\ ~elem.isDefault
    /\ elem.boundSpec[1].every # NULL
    /\ elem.boundSpec[1].start = NULL \/ elem.boundSpec[1].end = NULL

\* C14 as claimed: processing a RANGE element that has EVERY but lacks START or
\* END fails with EveryRequiresStartEnd and adds no statement.
C14_AsClaimed ==
    [][(GP_Element /\ gpargs.strategy = "range" /\ EveryWithoutBound(CurElem)) =>
          /\ gpc' = "failed" /\ gerr' = "EveryRequiresStartEnd"
          /\ origstmts' = origstmts]_vars

\* C14 amended: such an element fails with EveryRequiresStartEnd and adds no
\* statement when its options have no tablename; when they have one, EVERY is
\* ignored and one statement is added, named by the tablename and carrying the
\* declared START or END. In both cases the element's encoding merge comes
\* first, and when it fails the element fails with MultipleDefaultEncodings.
C14_EveryRequiresStartEnd ==
    [][(GP_Element /\ gpargs.strategy = "range" /\ EveryWithoutBound(CurElem)) =>
          IF ElemMergeFails(CurElem)
          THEN /\ gpc' = "failed" /\ gerr' = "MultipleDefaultEncodings"
               /\ origstmts' = origstmts
          ELSE IF ~HasTablename(CurElem)
          THEN /\ gpc' = "failed" /\ gerr' = "EveryRequiresStartEnd"
               /\ origstmts' = origstmts
          ELSE /\ gpc' = "elems" /\ gerr' = "none"
               /\ Appended /\ Len(NewStmts) = 1
               /\ NewStmts[1].relname.src = "tablename"
               /\ NewStmts[1].partbound.lowerdatums =
                     (IF CurElem.boundSpec[1].start = NULL THEN NULL
                      ELSE <<Const(CurElem.boundSpec[1].start[1])>>)
               /\ NewStmts[1].partbound.upperdatums =
                     (IF CurElem.boundSpec[1].end = NULL THEN NULL
                      ELSE <<Const(CurElem.boundSpec[1].end[1])>>)]_vars

\* A call failed on an element with START and EVERY but no END, after it had
\* made a statement for another element.
C14_Witness ==
    /\ gpc = "failed" /\ gerr = "EveryRequiresStartEnd"
    /\ gp.lc = 2 /\ Len(origstmts) = 1
    /\ EveryWithoutBound(gpPartDef[gp.partDefElems[2]])
    /\ gpPartDef[gp.partDefElems[2]].boundSpec[1].end = NULL

\* ---- generatePartitions: the tree
\* C17: when a call has returned or failed, every element's options, access
\* method and encoding clauses, and the parent option list, are what they were
\* when the call was made.
C17_TreeUnchanged ==
    gpc \in {"returned", "failed"} =>
        /\ Len(gpPartDef) = Len(entry.gpPartDef)
        /\ \A k \in 1..Len(gpPartDef) :
              /\ gpPartDef[k].options = entry.gpPartDef[k].options
              /\ gpPartDef[k].accessMethod = entry.gpPartDef[k].accessMethod
              /\ gpPartDef[k].colencs = entry.gpPartDef[k].colencs
        /\ parentoptions = entry.parentoptions

\* ---- generatePartitions: names
\* A relation name that is the given name as it stands. (src = "partname" is
\* the parent's name, the level and "prt_<partname>" put together, src =
\* "partnum" the same with "prt_<partnum>".)
IsVerbatim(relname, name) ==
    relname.src = "tablename" /\ relname.partname = PartName(name, 0)
TablenameOf(elem) == elem.options[TablenameCell(elem.options)].arg
\* A RANGE or LIST element with a name of its own or a tablename, from which
\* EVERY makes no series of partitions.
ExplicitlyNamedSingle(elem) ==
    /\ ~elem.isDefault
    /\ elem.partName # NULL \/ HasTablename(elem)
    /\ \/ gpargs.strategy = "list"
       \/ elem.boundSpec[1].every = NULL
       \/ HasTablename(elem)

\* C18 as claimed: the statement made for such an element is named by the
\* explicit name as it stands: the tablename, else the declared name.
C18_AsClaimed ==
    [][(GP_Element /\ ExplicitlyNamedSingle(CurElem) /\ gpc' = "elems") =>
          /\ Appended /\ Len(NewStmts) = 1
          /\ IsVerbatim(NewStmts[1].relname,
                        IF HasTablename(CurElem) THEN TablenameOf(CurElem)
                        ELSE CurElem.partName[1])]_vars

\* C18 amended: the statement is named by the tablename as it stands when the
\* element has one; otherwise its name is built by ChoosePartitionName from
\* the parent's name, the level and "prt_" followed by the declared name.
C18_ExplicitName ==
    [][(GP_Element /\ ExplicitlyNamedSingle(CurElem) /\ gpc' = "elems") =>
          /\ Appended /\ Len(NewStmts) = 1
          /\ IF HasTablename(CurElem)
             THEN IsVerbatim(NewStmts[1].relname, TablenameOf(CurElem))
             ELSE /\ NewStmts[1].relname.src = "partname"
                  /\ NewStmts[1].relname.partname = PartName(CurElem.partName[1], 0)]_vars

\* A call has made a statement named by a tablename and one named after the
\* declared name p.
C18_Witness ==
    /\ gpc = "elems"
    /\ \E i, j \in 1..Len(origstmts) :
          /\ ~origstmts[i].partbound.is_default
          /\ IsVerbatim(origstmts[i].relname, "t")
          /\ ~origstmts[j].partbound.is_default
          /\ origstmts[j].relname.src = "partname"
          /\ origstmts[j].relname.partname = PartName("p", 0)

\* C19: when a RANGE element with a declared name and EVERY (and no tablename)
\* has been expanded into several statements, the k-th of them, in the order in
\* which they were made, is named after the declared name followed by _k, k =
\* 1, 2, ..., n; the numbering starts at 1 for every element.
C19_EverySuffix ==
    [][(/\ GP_Element /\ gpargs.strategy = "range" /\ ~CurElem.isDefault
        /\ CurElem.partName # NULL /\ ~HasTablename(CurElem)
        /\ CurElem.boundSpec[1].every # NULL
        /\ gpc' = "elems" /\ Len(NewStmts) > 1) =>
          /\ Appended
          /\ \A k \in 1..Len(NewStmts) :
                /\ NewStmts[k].relname.src = "partname"
                /\ NewStmts[k].relname.partname.base = CurElem.partName[1]
                /\ NewStmts[k].relname.partname.i = k]_vars

\* Two elements named p were each expanded by EVERY into two statements.
C19_Witness ==
    /\ gpc = "elems" /\ Len(origstmts) = 4
    /\ \A k \in 1..4 : origstmts[k].relname.src = "partname"
    /\ [k \in 1..4 |-> origstmts[k].relname.partname.i] = <<1, 2, 1, 2>>
    /\ \A k \in 1..4 : origstmts[k].relname.partname.base = "p"

\* ---- generatePartitions: the counter
\* Statements among the first j generated that were not named by a tablename.
Consumed(j) == Cardinality({i \in 1..j : origstmts[i].relname.src # "tablename"})
AutoNumbered == {j \in 1..Len(origstmts) : origstmts[j].relname.src = "partnum"}
DefaultStmts == {j \in 1..Len(origstmts) : origstmts[j].partbound.is_default}
\* The DEFAULT element is processed first, and every statement not named by a
\* tablename takes the next value of the counter, in the order of generation.
CounterByPosition ==
    /\ gp.partDefElems = ProcessingOrder
    /\ DefaultStmts \subseteq {1}
    /\ gp.partcomp.partnum = Consumed(Len(origstmts))
    /\ \A j \in AutoNumbered : origstmts[j].relname.partnum = Consumed(j)

NoTablename(options) == \A k \in 1..Len(options) : options[k].defname # "tablename"
OnlyTablename(options) == Len(options) = 1 /\ options[1].defname = "tablename"

\* C21: no statement a step of the main loop makes has a tablename among its
\* options, whether the tablename was given in the parent options or in the
\* element's own; a statement made for an element whose only option was a
\* tablename has the parent options, without tablename, as its options.
C21_NoTablenameInDescriptors ==
    [][(GP_Element /\ gpc' = "elems") =>
          /\ Appended
          /\ \A k \in 1..Len(NewStmts) :
                /\ NoTablename(NewStmts[k].options)
                /\ OnlyTablename(CurElem.options) =>
                      /\ NewStmts[k].options = gp.poptions
                      /\ NoTablename(gp.poptions)]_vars

\* ---- the resolver: absent sides
OneSideExplicit(st) == LowerOf(st) # NULL \/ UpperOf(st) # NULL
BothSides(st) == LowerOf(st) # NULL /\ UpperOf(st) # NULL

\* C22: when every RANGE statement of the generated list has a lower or an upper
\* bound, every RANGE statement of the resolved list has both (a literal or a
\* minvalue / maxvalue reference), whatever the order of declaration.
C22_NoSideLeftAbsent ==
    (spc = "resolved" /\ \A i \in RangeIdx(origstmts) : OneSideExplicit(origstmts[i])) =>
        \A i \in RangeIdx(result) : BothSides(result[i])

\* ---- the resolver and the DEFAULT statement
\* C23: in the resolved list a DEFAULT statement has neither a lower nor an upper
\* bound, and a RANGE statement that lacked a side and stands next to a DEFAULT
\* statement on that side has not been left with the DEFAULT statement's absent
\* bound.
C23_DefaultUntouched ==
    spc = "resolved" =>
        \A i \in 1..Len(result) :
            IF result[i].partbound.is_default
            THEN LowerOf(result[i]) = NULL /\ UpperOf(result[i]) = NULL
            ELSE /\ (i > 1 /\ sortedstmts[i - 1].partbound.is_default) =>
                        LowerOf(result[i]) # NULL
                 /\ (i < Len(result) /\ sortedstmts[i + 1].partbound.is_default) =>
                        UpperOf(result[i]) # NULL

\* ---- the iterator after its last pair
\* The last pair has been returned: the one whose upper bound is END, or the
\* only pair when there is no EVERY.
LastPairReturned ==
    /\ ipc \in {"loop", "done"}
    /\ emitted # <<>>
    /\ rangeSpec.every = NULL \/ Upper(Len(emitted)) = iter.endVal
CallsNextPartBound == NextBound \/ CallAgain

\* C24: a call of nextPartBound made after the last pair was returned returns
\* false (no pair is added, no error raised) and leaves currStart, currEnd and
\* endReached as they were; this holds for every such call, not only the first.
C24_NonRestartable ==
    [][(CallsNextPartBound /\ LastPairReturned) =>
          /\ emitted' = emitted
          /\ ipc' = "done"
          /\ iter'.currStart = iter.currStart
          /\ iter'.currEnd = iter.currEnd
          /\ iter'.endReached = iter.endReached]_vars

\* START(1) END(3) EVERY(1): three calls were made after the pair [2,3), and the
\* cursors are where that pair left them.
C24_Witness ==
    /\ rangeSpec = [start |-> <<1>>, end |-> <<3>>, endIncl |-> FALSE, every |-> <<1>>]
    /\ ipc = "done" /\ emitted = <<(<<1, 2>>), (<<2, 3>>)>>
    /\ ncalls = 5
    /\ iter.currStart = 2 /\ iter.currEnd = 3 /\ iter.endReached

\* ---- the iterator: termination
LoopEnded == ipc \in ({"done"} \cup IterErrors)

\* C25: a call of nextPartBound made by the loop returns false, raises an error,
\* returns the last pair (the call after it returns false), or returns a pair
\* whose upper bound is greater than the one before and below END; and the
\* loop ends, for every START, END and EVERY of the type, additions that wrap
\* around included.
C25_DrainTerminates ==
    /\ [][NextBound =>
             \/ ipc' = "done"
             \/ ipc' \in IterErrors
             \/ /\ ipc' = "loop" /\ Len(emitted') = Len(emitted) + 1
                /\ LastPairReturned'
                /\ ~nextPartBound(iter').ret /\ nextPartBound(iter').err = "none"
             \/ /\ ipc' = "loop" /\ Len(emitted') = Len(emitted) + 1
                /\ iter.currEnd < iter'.currEnd
                /\ iter'.currEnd < iter.endVal]_vars
    /\ <>LoopEnded

\* START(4) END(13) EVERY(4): after [4,8) and [8,12) the addition wrapped around
\* and the loop ended with an error.
C25_Witness ==
    /\ rangeSpec = [start |-> <<4>>, end |-> <<13>>, endIncl |-> FALSE, every |-> <<4>>]
    /\ emitted = <<(<<4, 8>>), (<<8, 12>>)>>
    /\ PlusOp(iter.currEnd, 4) < iter.currEnd
    /\ ipc = "RangeOverflow" /\ ncalls = 3

\* ---- the iterator: an inclusive END
DeclaredEnd == rangeSpec.end[1]
Covered(v) == \E i \in 1..Len(emitted) : Lower(i) <= v /\ v < Upper(i)
\* END as the iterator has it is exclusiveEnd, and an expansion with EVERY that
\* has ended without error ended on it and, for an inclusive END, left no value
\* of START..END outside its intervals.
EndsOn(exclusiveEnd) ==
    /\ iter.endVal = exclusiveEnd
    /\ (ipc = "done" /\ rangeSpec.every # NULL) =>
          /\ emitted # <<>>
          /\ Upper(Len(emitted)) = exclusiveEnd
          /\ rangeSpec.endIncl => \A v \in StartVal..DeclaredEnd : Covered(v)

\* C26 as claimed: once the iterator is set up, END(b) INCLUSIVE is b + 1 in it
\* and END(b) is b; START(a) END(b) INCLUSIVE EVERY(e) ends on b + 1 and its
\* intervals hold every value of a..b.
C26_AsClaimed ==
    (HasStartEnd /\ ipc # "init") =>
        EndsOn(IF rangeSpec.endIncl THEN DeclaredEnd + 1 ELSE DeclaredEnd)

\* C26 amended: the same for b below the greatest value of the key's type; for
\* the greatest value b + 1 is what the type's + operator makes of it, and
\* nothing is said about the intervals.
C26_InclusiveEnd ==
    (HasStartEnd /\ ipc # "init") =>
        IF rangeSpec.endIncl /\ DeclaredEnd = MaxVal
        THEN iter.endVal = PlusOp(DeclaredEnd, 1)
        ELSE EndsOn(IF rangeSpec.endIncl THEN DeclaredEnd + 1 ELSE DeclaredEnd)

\* START(1) END(3) INCLUSIVE EVERY(2) has ended with [1,3) [3,4).
C26_Witness ==
    /\ rangeSpec = [start |-> <<1>>, end |-> <<3>>, endIncl |-> TRUE, every |-> <<2>>]
    /\ ipc = "done"
    /\ iter.endVal = 4
    /\ emitted = <<(<<1, 3>>), (<<3, 4>>)>>

\* ---- column encodings: the DEFAULT directive
\* The level whose DEFAULT directive prevails: the element's, else the
\* configuration's, else the table's; "none" when no level has one.
PrevailingLevel ==
    IF DefaultCount(encIn.colencs) > 0 THEN "elem"
    ELSE IF DefaultCount(encIn.penc) > 0 THEN "config"
    ELSE IF DefaultCount(encIn.parentattenc) > 0 THEN "table"
    ELSE "none"

\* C27: when no level has more than one DEFAULT directive, the list of encoding
\* clauses the statement of an element gets has at most one DEFAULT directive,
\* and it is the element's own, else the configuration's, else the table's;
\* the list merged for an element whose access method, own or inherited, is
\* aoco has that directive whenever some level has one.
C27_DefaultPrecedence ==
    (/\ epc = "made"
     /\ DefaultCount(encIn.colencs) <= 1
     /\ DefaultCount(encIn.penc) <= 1
     /\ DefaultCount(encIn.parentattenc) <= 1) =>
        /\ DefaultCount(encStmt) <= 1
        /\ \A d \in Elems(encStmt) : d.deflt => d.lvl = PrevailingLevel
        /\ (MergesEncodings(encElem.accessMethod) /\ PrevailingLevel # "none") =>
              DefaultCount(encStmt) = 1

\* An aoco element naming column a, under a configuration naming b and a table
\* with a DEFAULT directive, got the table's DEFAULT directive.
C27_Witness ==
    /\ epc = "made"
    /\ encIn.colencs = <<Directive(FALSE, "a", "elem")>>
    /\ encIn.penc = <<Directive(FALSE, "b", "config")>>
    /\ encIn.parentattenc = <<Directive(TRUE, "", "table")>>
    /\ encStmt = <<Directive(FALSE, "a", "elem"), Directive(FALSE, "b", "config"),
                   Directive(TRUE, "", "table")>>

\* ---- generatePartitions: a RANGE element with a tablename
BoundOf(node) == IF node = NULL THEN NULL ELSE <<Const(node[1])>>

\* C28: a RANGE element whose options have a tablename, once its encodings are
\* merged, is expanded without error into exactly one statement, whatever its
\* EVERY clause: the statement's bounds are the declared START and END, its
\* name is the tablename as it stands, and the counter of the level stays
\* where it was.
C28_TablenameIgnoresEvery ==
    [][(/\ GP_Element /\ gpargs.strategy = "range" /\ ~CurElem.isDefault
        /\ HasTablename(CurElem) /\ ~ElemMergeFails(CurElem)) =>
          LET bs == CurElem.boundSpec[1]
          IN  /\ gpc' = "elems" /\ gerr' = "none"
              /\ Appended /\ Len(NewStmts) = 1
              /\ NewStmts[1].partbound.lowerdatums = BoundOf(bs.start)
              /\ NewStmts[1].partbound.upperdatums =
                    (IF bs.end = NULL THEN NULL
                     ELSE <<Const(IF bs.endIncl THEN bs.end[1] + 1 ELSE bs.end[1])>>)
              /\ IsVerbatim(NewStmts[1].relname, TablenameOf(CurElem))
              /\ gp'.partcomp.partnum = gp.partcomp.partnum]_vars

\* PARTITION p START(1) END(3) EVERY(1) WITH (tablename='t') after an unnamed
\* element: one statement [1,3) named t, and the counter still at 1.
C28_Witness ==
    /\ gpc = "elems" /\ gp.lc = 3 /\ Len(origstmts) = 2
    /\ gpPartDef[2].partName = <<"p">>
    /\ gpPartDef[2].boundSpec[1].every = <<1>>
    /\ origstmts[1].relname.src = "partnum"
    /\ IsVerbatim(origstmts[2].relname, "t")
    /\ origstmts[2].partbound.lowerdatums = <<Const(1)>>
    /\ origstmts[2].partbound.upperdatums = <<Const(3)>>
    /\ gp.partcomp.partnum = 1

\* ---- the iterator: START not below END
StartNotBelowEnd == HasStartEnd /\ rangeSpec.every # NULL /\ StartVal >= EndVal
\* The first call has returned the pair (START, END) and set endReached; no
\* error was raised and no other pair follows.
SinglePairNoError ==
    /\ ipc \in {"loop", "done"}
    /\ emitted = <<(<<StartVal, EndVal>>)>>
    /\ iter.endReached

\* C29 as claimed: with EVERY and START >= END (END made exclusive), once the
\* iterator has been called it has returned the one pair (START, END) and set
\* endReached, and no error is raised, whatever the step.
C29_AsClaimed ==
    (StartNotBelowEnd /\ ncalls >= 1) => SinglePairNoError

\* C29 amended: this is so when START + EVERY, as the + operator gives it, is
\* not below END (a zero step, or a positive step that does not wrap around);
\* when it is below END (a negative step, or a step that wraps around) the first
\* call raises NonMonotonicStep and no pair is returned.
C29_StartNotBelowEnd ==
    (StartNotBelowEnd /\ ncalls >= 1) =>
        IF PlusOp(StartVal, rangeSpec.every[1]) >= EndVal
        THEN SinglePairNoError
        ELSE ipc = "NonMonotonicStep" /\ emitted = <<>> /\ ncalls = 1

\* START(5) END(3) EVERY(0) has ended with the pair (5, 3).
C29_Witness ==
    /\ rangeSpec = [start |-> <<5>>, end |-> <<3>>, endIncl |-> FALSE, every |-> <<0>>]
    /\ ipc = "done" /\ ncalls = 2
    /\ emitted = <<(<<5, 3>>)>>

\* ---- the sorter and the resolver: what they leave alone
\* The places of the resolved list that hold the statement named relname.
PlacesOf(relname) == {i \in 1..Len(result) : result[i].relname = relname}

\* C30: the resolved list holds every generated statement once and nothing
\* else, and a statement's lower or upper bound that was there before
\* resolution is the same after it; only absent sides are written.
C30_PermutationAndFrame ==
    spc = "resolved" =>
        /\ Len(result) = Len(origstmts)
        /\ \A k \in 1..Len(origstmts) :
              /\ Cardinality(PlacesOf(origstmts[k].relname)) = 1
              /\ \A i \in PlacesOf(origstmts[k].relname) :
                    /\ result[i].partbound.is_default = origstmts[k].partbound.is_default
                    /\ LowerOf(origstmts[k]) # NULL =>
                          LowerOf(result[i]) = LowerOf(origstmts[k])
                    /\ UpperOf(origstmts[k]) # NULL =>
                          UpperOf(result[i]) = UpperOf(origstmts[k])

\* START(1) declared before START(0) END(1): the sorter swapped them, the
\* resolver gave the first its upper bound and left the three explicit bounds.
C30_Witness ==
    /\ spc = "resolved" /\ Len(origstmts) = 2
    /\ LowerOnly(origstmts[1], 1)
    /\ origstmts[2].partbound = PartitionBoundSpec(FALSE, <<Const(0)>>, <<Const(1)>>)
    /\ result[1] = origstmts[2]
    /\ result[2].relname = origstmts[1].relname
    /\ LowerOf(result[2]) = <<Const(1)>> /\ UpperOf(result[2]) = <<MaxValueRef>>

====
